---- MODULE Spec2Model ----
(***************************************************************************)
(* Model of the workflow-dispatch action: run() dispatches a workflow and  *)
(* applyWorkflowRunId (dispatch.ts) then polls the platform until it finds *)
(* the run whose step names match the correlation marker (config.commitId).*)
(* Times are in milliseconds, as in the source.  Strings that the code     *)
(* inspects character by character (step names, the marker) are sequences  *)
(* of one-character strings.                                               *)
(***************************************************************************)
EXTENDS Integers, Sequences, FiniteSets, TLC

VARIABLES
    pc,             \* the await point the single thread of control is at
    now,            \* Date.now()
    platform,       \* run id -> what ListJobsForRun holds for the run while the
                    \* candidates of the current cycle are inspected
    workflowRef,    \* run(): workflowRef, core.getInput('workflow')
    inputs,         \* run(): inputs, the object sent with the dispatch call
    timeoutInput,   \* config.workflowTimeoutSeconds
    commitId,       \* config.commitId, the correlation marker
    foundWorkflow,  \* foundWorkflow.id (0: none)
    startTime,      \* applyWorkflowRunId: startTime
    timeoutMs,      \* applyWorkflowRunId: timeoutMs
    attemptNo,      \* applyWorkflowRunId: attemptNo
    elapsedTime,    \* applyWorkflowRunId: elapsedTime
    rStartTime,     \* retryOrDie: startTime
    rTimeoutMs,     \* retryOrDie: timeoutMs
    rElapsedTime,   \* retryOrDie: elapsedTime
    workflowRunIds, \* applyWorkflowRunId: workflowRunIds of the current cycle
    idx,            \* position of the for loop in workflowRunIds
    outputs,        \* core.setOutput calls, in order: <<name, value>>
    failed,         \* core.setFailed calls, in order: the messages
    warnings,       \* core.warning calls of run()
    rCalls,         \* history: producer calls issued by the running retryOrDie
    rEmpties,       \* history: empty results the running retryOrDie has received
    rCallAt,        \* history: time its last producer call was issued
    listed,         \* history: the run ids of the last ListWorkflowRuns response
    cycleRuns,      \* history: the runs whose ListJobsForRun call has returned
                    \*          in the current cycle, in order
    matchSeen,      \* history: some ListJobsForRun response held a step name
                    \*          the marker pattern matches
    apiFailure,     \* history: the failure that ended the search, other than a
                    \*          timeout ("none": no such failure; "disabled": the
                    \*          dispatch was refused, the workflow being disabled)
    invocations,    \* two concurrent invocations of the action: invocation ->
                    \* its marker and the locals of its applyWorkflowRunId
    remoteRuns,     \* the runs of the dispatched workflow on the platform the
                    \* two invocations share, in creation order
    configRef,      \* getWorkflowRunIds: config.ref, as path segments
    params,         \* getWorkflowRunIds: params, once it has been built
    responseJobs,   \* getWorkflowRunJobSteps: response.data.jobs
    returnedSteps,  \* getWorkflowRunJobSteps: the value it has returned
    apiPc,          \* api.ts applyWorkflowRunId: the call being awaited
    apiPlatform,    \* the runs of the platform, as api.ts reads them
    apiRunIds,      \* api.ts applyWorkflowRunId: workflowRunIds
    apiIdx,         \* api.ts applyWorkflowRunId: position of id in workflowRunIds
    apiAttemptNo,   \* api.ts applyWorkflowRunId: attemptNo
    apiOutputs,     \* api.ts: the values of core.setOutput(runId, ..)
    apiFailed,      \* api.ts: the messages of core.setFailed
    urlCalls        \* history: the GetRun calls, <<run id, outcome>>

inputVars == <<workflowRef, inputs, timeoutInput>>
applyVars == <<startTime, timeoutMs, attemptNo, elapsedTime>>
retryVars == <<rStartTime, rTimeoutMs, rElapsedTime>>
cycleVars == <<workflowRunIds, idx>>
effectVars == <<outputs, failed, warnings>>
histVars == <<rCalls, rEmpties, rCallAt, listed, cycleRuns, matchSeen, apiFailure>>
runVars == <<pc, now, platform, inputVars, commitId, foundWorkflow, applyVars,
             retryVars, cycleVars, effectVars, histVars>>
concVars == <<invocations, remoteRuns>>
queryVars == <<configRef, params>>
stepVars == <<responseJobs, returnedSteps>>
apiVars == <<apiPc, apiPlatform, apiRunIds, apiIdx, apiAttemptNo, apiOutputs,
             apiFailed, urlCalls>>
vars == <<runVars, concVars, queryVars, stepVars, apiVars>>

----------------------------------------------------------------------------
(* Bounds of the model *)

\* run ids the platform can hold
MaxRuns == 2

\* the largest overall timeout (seconds) the configuration is drawn from
MaxTimeoutSeconds == 4

----------------------------------------------------------------------------
(* Program constants *)

WORKFLOW_FETCH_TIMEOUT_MS == 60 * 1000
WORKFLOW_JOB_STEPS_RETRY_MS == 5000
WORKFLOW_TIMEOUT_SECONDS == 5 * 60
RETRY_BACKOFF_MS == 1000

----------------------------------------------------------------------------
(* Strings, the marker pattern and the step names *)

\* part_001:36  github['sha'] is not a property of the @actions/github
\* module, so the default inputs object carries commitId: undefined
Undefined == [defined |-> FALSE, text |-> <<>>]

Str(t) == [defined |-> TRUE, text |-> t]

\* new RegExp(commitId): the pattern source; new RegExp(undefined) is the
\* empty pattern /(?:)/
RegExpSource(marker) == IF marker.defined THEN marker.text ELSE <<>>

\* idRegex.test(step): an unanchored search; "." in the pattern matches any
\* character, every other pattern character matches itself
RegexTest(src, step) ==
    \E i \in 1..(Len(step) + 1) :
        /\ i + Len(src) - 1 <= Len(step)
        /\ \A j \in 1..Len(src) : src[j] = "." \/ src[j] = step[i + j - 1]

\* step names: "checkout", "echo M1 done", "echo MX done"
StepCheckout == <<"c", "o">>
StepEchoM1 == <<"e", "M", "1", "d">>
StepEchoMX == <<"e", "M", "X", "d">>

\* marker texts a caller can pass as inputs.commitId: "M1" and "M."
MarkerTexts == {<<"M", "1">>, <<"M", ".">>}

\* job lists of a run, as ListJobsForRun returns them (a job may have no
\* steps property)
Job(id, steps) == [id |-> id, hasSteps |-> TRUE, steps |-> steps]
JobNoSteps(id) == [id |-> id, hasSteps |-> FALSE, steps |-> <<>>]
JobsMX == <<Job(1, <<StepCheckout, StepEchoMX>>), JobNoSteps(2)>>
JobsM1 == <<Job(1, <<StepCheckout>>), Job(2, <<StepCheckout, StepEchoM1>>)>>
JobLists == {JobsMX, JobsM1}

RunIds == 1..MaxRuns

\* the value of platform while no candidate list is being inspected: the runs
\* of the platform change while time passes, and the code reads them only
\* through ListJobsForRun, so their content is drawn when a candidate list
\* arrives, for the runs of that list
\* a run is "unlisted", "notfound" (its jobs are not queryable yet:
\* ListJobsForRun answers Not Found) or "ok" (ListJobsForRun answers its jobs)
Unlisted == [state |-> "unlisted", jobs |-> <<>>]
NotFoundYet == [state |-> "notfound", jobs |-> <<>>]
Queryable(jobs) == [state |-> "ok", jobs |-> jobs]
RunStates == {Unlisted, NotFoundYet} \cup {Queryable(jobs) : jobs \in JobLists}

NotListed == [r \in RunIds |-> Unlisted]

Listed(ids) == {ids[k] : k \in 1..Len(ids)}

PlatformsFor(ids) ==
    {p \in [RunIds -> RunStates] :
        \A r \in RunIds : (p[r] = Unlisted) <=> (r \notin Listed(ids))}

RECURSIVE Flatten(_)
\* dispatch.ts:87-92  allSteps: the steps of every job, job by job
Flatten(jobs) ==
    IF jobs = <<>> THEN <<>>
    ELSE (IF Head(jobs).hasSteps THEN Head(jobs).steps ELSE <<>>)
         \o Flatten(Tail(jobs))

RECURSIVE Distinct(_)
\* dispatch.ts:94  Array.from(new Set(allSteps)): first occurrences, in order
Distinct(s) ==
    IF s = <<>> THEN <<>>
    ELSE LET init == Distinct(SubSeq(s, 1, Len(s) - 1))
             last == s[Len(s)]
         IN  IF \E k \in 1..Len(init) : init[k] = last THEN init
             ELSE Append(init, last)

\* fault: the steps are returned as collected, without the Set
JobStepsCollected(jobs) == Flatten(jobs)

\* dispatch.ts:82-104  the value getWorkflowRunJobSteps returns on status 200
JobSteps(jobs) == Distinct(Flatten(jobs))

\* dispatch.ts:172-190  some step of the list passes idRegex.test
StepsMatch(marker, steps) ==
    \E k \in 1..Len(steps) : RegexTest(RegExpSource(marker), steps[k])

\* all sequences of distinct run ids, the empty one included
RunLists ==
    {s \in UNION {[1..n -> RunIds] : n \in 0..MaxRuns} :
        \A i, j \in 1..Len(s) : i # j => s[i] # s[j]}

----------------------------------------------------------------------------
(* Configuration values *)

\* getNumberFromValue's argument: "" , a string parseInt gives NaN for, or a
\* string parseInt gives the integer n for
EmptyValue == [kind |-> "empty", n |-> 0]
NaNValue == [kind |-> "nan", n |-> 0]
IntValue(n) == [kind |-> "int", n |-> n]

TimeoutInputs == {NaNValue, IntValue(-1), IntValue(MaxTimeoutSeconds)}

\* dispatch.ts:11-27  [ok, defined, num]: ok = FALSE is the thrown
\* "Unable to parse value", defined = FALSE is the undefined result
getNumberFromValue(value) ==
    IF value.kind = "empty" THEN [ok |-> TRUE, defined |-> FALSE, num |-> 0]
    ELSE IF value.kind = "nan" THEN [ok |-> FALSE, defined |-> FALSE, num |-> 0]
    ELSE [ok |-> TRUE, defined |-> TRUE, num |-> value.n]

\* fault: the default replaces only the undefined result, as ?? would
TimeoutMsOfDefined(parsed) ==
    (IF parsed.defined THEN parsed.num ELSE WORKFLOW_TIMEOUT_SECONDS) * 1000

\* dispatch.ts:142  (getNumberFromValue(..) || WORKFLOW_TIMEOUT_SECONDS) * 1000
\* (undefined and 0 are falsy)
TimeoutMsOf(parsed) ==
    (IF parsed.defined /\ parsed.num # 0 THEN parsed.num
     ELSE WORKFLOW_TIMEOUT_SECONDS) * 1000

\* dispatch.ts:155
FetchTimeout(tMs) ==
    IF WORKFLOW_FETCH_TIMEOUT_MS > tMs THEN tMs ELSE WORKFLOW_FETCH_TIMEOUT_MS

\* the workflows ListWorkflows returns; names, ids and paths as token lists
Workflows ==
    << [id |-> 1, name |-> <<"Message Echo 1">>, idStr |-> <<"1">>,
        path |-> <<".github/workflows/", "echo-1.yaml">>],
       [id |-> 2, name |-> <<"Message Echo 2">>, idStr |-> <<"2">>,
        path |-> <<".github/workflows/", "echo-2.yaml">>] >>

WorkflowRefs == {<<"Message Echo 1">>, <<"echo-2.yaml">>, <<"nope.yaml">>}

\* String.prototype.endsWith
EndsWith(s, suffix) ==
    /\ Len(suffix) <= Len(s)
    /\ SubSeq(s, Len(s) - Len(suffix) + 1, Len(s)) = suffix

\* part_001:58-62  the predicate of workflows.find
WorkflowMatches(w, ref) ==
    w.name = ref \/ w.idStr = ref \/ EndsWith(w.path, ref)

\* fault: the first listed workflow is taken whatever the selector
FindWorkflowFirst(ws, ref) == ws[1].id

\* part_001:58-64  the id of the first matching workflow, 0 when none matches
FindWorkflow(ws, ref) ==
    IF \E k \in 1..Len(ws) : WorkflowMatches(ws[k], ref)
    THEN ws[CHOOSE k \in 1..Len(ws) :
                /\ WorkflowMatches(ws[k], ref)
                /\ \A m \in 1..(k - 1) : ~WorkflowMatches(ws[m], ref)].id
    ELSE 0

\* the time a remote call takes (the clock is not read again after a call
\* whose failure ends the search, so such a call is given no duration)
CallLatencies == {0, 1000}

----------------------------------------------------------------------------
(* Values the environment supplies *)

\* core.getInput('inputs'): no input, a string that is not JSON, or a JSON
\* object with or without a commitId
InputsJsons ==
    {[kind |-> "absent", commitId |-> Undefined],
     [kind |-> "invalid", commitId |-> Undefined],
     [kind |-> "object", commitId |-> Undefined]}
    \cup {[kind |-> "object", commitId |-> Str(t)] : t \in MarkerTexts}

\* how a remote call can fail: a response whose status is not 200, a thrown
\* request error "Not Found", a thrown request error with another message
CallFailures == {"status", "Not Found", "Server Error"}

\* the failures of ListJobsForRun that do not depend on the run's state
TransportFailures == {"status", "Server Error"}

----------------------------------------------------------------------------
(* Effects *)

RunIdOutputs == SelectSeq(outputs, LAMBDA o : o[1] = "runId")

\* core.setFailed(message); the function returns
Fail(message) ==
    /\ failed' = Append(failed, message)
    /\ pc' = "done"
    /\ UNCHANGED <<outputs, warnings>>

\* fault: the per-candidate catch rethrows every error
RethrownAlways(message) == TRUE

\* fault: the per-candidate catch swallows every error
RethrownNever(message) == FALSE

\* dispatch.ts:192  the test of the per-candidate catch: TRUE rethrows
Rethrown(message) == message # "Not Found"

\* fault: the loop test allows for the coming backoff
RetryGoesOnEarly(elapsed, timeout) == elapsed + 1000 < timeout

\* dispatch.ts:123  the test of retryOrDie's while loop
RetryGoesOn(elapsed, timeout) == elapsed < timeout

\* fault: the while loop of applyWorkflowRunId does not test the deadline
SearchGoesOnAlways(elapsed, timeout) == TRUE

\* dispatch.ts:148  the test of applyWorkflowRunId's while loop
SearchGoesOn(elapsed, timeout) == elapsed < timeout

\* fault: the for loop never advances past the first candidate
CandidateFirst(ids, i) == ids[1]

\* dispatch.ts:166  the candidate the for loop takes at position i
Candidate(ids, i) == ids[i]

\* api.ts applyWorkflowRunId has not been called
ApiNotStarted ==
    /\ apiPc = "idle"
    /\ apiPlatform = NotListed
    /\ apiRunIds = <<>>
    /\ apiIdx = 0
    /\ apiAttemptNo = 0
    /\ apiOutputs = <<>>
    /\ apiFailed = <<>>
    /\ urlCalls = <<>>

\* getWorkflowRunJobSteps has not returned
NotReturned == [returned |-> FALSE, steps |-> <<>>]

\* getWorkflowRunIds has not built its params
NotBuilt == [built |-> FALSE, branch |-> Undefined, per_page |-> 0]

----------------------------------------------------------------------------
(* Initial state: the process has been started, run() has not yet run *)

NotStarted ==
    /\ pc = "start"
    /\ now = 0
    /\ platform = NotListed
    /\ workflowRef = <<>>
    /\ inputs = [commitId |-> Undefined]
    /\ timeoutInput = EmptyValue
    /\ commitId = Undefined
    /\ foundWorkflow = 0
    /\ startTime = 0
    /\ timeoutMs = 0
    /\ attemptNo = 0
    /\ elapsedTime = 0
    /\ rStartTime = 0
    /\ rTimeoutMs = 0
    /\ rElapsedTime = 0
    /\ workflowRunIds = <<>>
    /\ idx = 0
    /\ outputs = <<>>
    /\ failed = <<>>
    /\ warnings = <<>>
    /\ rCalls = 0
    /\ rEmpties = 0
    /\ rCallAt = 0
    /\ listed = <<>>
    /\ cycleRuns = <<>>
    /\ matchSeen = FALSE
    /\ apiFailure = "none"

\* one invocation of the action; no other invocation is modelled
Init ==
    /\ NotStarted
    /\ invocations = <<>>
    /\ remoteRuns = <<>>
    /\ configRef = <<>>
    /\ params = NotBuilt
    /\ responseJobs = <<>>
    /\ returnedSteps = NotReturned
    /\ ApiNotStarted

----------------------------------------------------------------------------
(* run(), up to the call of applyWorkflowRunId *)

\* part_001:22-50  read the inputs, decode the inputs JSON, issue ListWorkflows
RunStart ==
    /\ pc = "start"
    /\ \E ref \in WorkflowRefs, json \in InputsJsons :
        /\ workflowRef' = ref
        /\ IF json.kind = "invalid"
           THEN /\ Fail("Unexpected token in JSON")
                /\ UNCHANGED <<inputs, commitId>>
           ELSE /\ inputs' = [commitId |-> json.commitId]
                /\ commitId' = json.commitId
                /\ pc' = "list_workflows"
                /\ UNCHANGED effectVars
    /\ UNCHANGED <<now, platform, timeoutInput, foundWorkflow, applyVars,
                   retryVars, cycleVars, histVars>>
    /\ UNCHANGED <<concVars, queryVars, stepVars, apiVars>>

\* part_001:48-73  ListWorkflows returns; find the workflow, issue the dispatch
\* (workflowRef is not read after line 64)
ListWorkflowsDone ==
    /\ pc = "list_workflows"
    /\ \/ /\ FindWorkflow(Workflows, workflowRef) # 0
          /\ foundWorkflow' = FindWorkflow(Workflows, workflowRef)
          /\ pc' = "dispatch"
          /\ UNCHANGED effectVars
       \/ /\ FindWorkflow(Workflows, workflowRef) = 0
          /\ Fail("Unable to find workflow")
          /\ UNCHANGED foundWorkflow
       \/ /\ Fail("Server Error")
          /\ UNCHANGED foundWorkflow
    /\ workflowRef' = <<>>
    /\ UNCHANGED <<now, platform, inputs, timeoutInput, commitId, applyVars,
                   retryVars, cycleVars, histVars>>
    /\ UNCHANGED <<concVars, queryVars, stepVars, apiVars>>

\* the errors the dispatch request throws: a message and the words it ends
\* with
DisabledError ==
    [message |-> "Cannot trigger a 'workflow_dispatch' on a disabled workflow",
     lastWords |-> "a disabled workflow"]
OtherDispatchError ==
    [message |-> "Unexpected dispatch status", lastWords |-> "dispatch status"]
DispatchErrors == {DisabledError, OtherDispatchError}

\* fault: the catch of run() has no case for the disabled workflow
DisabledIsFailure(e) == FALSE

\* part_001:92  e.message.endsWith('a disabled workflow')
DisabledWorkflow(e) == e.lastWords = "a disabled workflow"

\* part_001:76-87 and dispatch.ts:139-146  run() sets the workflowId output,
\* builds config with workflowTimeoutSeconds = value and enters
\* applyWorkflowRunId, which parses the timeout and reaches its while loop
EnterApply(value) ==
    /\ timeoutInput' = value
    /\ startTime' = now
    /\ IF getNumberFromValue(value).ok
       THEN /\ timeoutMs' = TimeoutMsOf(getNumberFromValue(value))
            /\ attemptNo' = 0
            /\ elapsedTime' = now - now
            /\ outputs' = Append(outputs, <<"workflowId", foundWorkflow>>)
            /\ pc' = "loop_check"
            /\ UNCHANGED <<failed, warnings, apiFailure>>
       ELSE /\ outputs' = Append(outputs, <<"workflowId", foundWorkflow>>)
            /\ failed' = Append(failed, "Unable to parse value")
            /\ pc' = "done"
            /\ apiFailure' = "parse"
            /\ UNCHANGED <<timeoutMs, attemptNo, elapsedTime, warnings>>

\* part_001:70-98  the dispatch call returns, or throws
DispatchDone ==
    /\ pc = "dispatch"
    /\ \/ \E value \in TimeoutInputs : EnterApply(value)
       \/ \E e \in DispatchErrors :
            /\ IF DisabledWorkflow(e)
               THEN /\ warnings' = Append(warnings, "Workflow is disabled, no action was taken")
                    /\ pc' = "done"
                    /\ UNCHANGED <<outputs, failed>>
               ELSE Fail(e.message)
            /\ apiFailure' = IF e = DisabledError THEN "disabled" ELSE apiFailure
            /\ UNCHANGED <<timeoutInput, applyVars>>
    /\ UNCHANGED <<now, platform, workflowRef, inputs, commitId, foundWorkflow,
                   retryVars, cycleVars, rCalls, rEmpties, rCallAt, listed,
                   cycleRuns, matchSeen>>
    /\ UNCHANGED <<concVars, queryVars, stepVars, apiVars>>

----------------------------------------------------------------------------
(* applyWorkflowRunId and retryOrDie *)

\* dispatch.ts:148-156 and 121-122, 204  the test of the outer while loop; a
\* new search cycle enters retryOrDie, an elapsed deadline throws
LoopCheck ==
    /\ pc = "loop_check"
    /\ IF SearchGoesOn(elapsedTime, timeoutMs)
       THEN /\ attemptNo' = attemptNo + 1
            /\ elapsedTime' = now - startTime
            /\ rTimeoutMs' = FetchTimeout(timeoutMs)
            /\ rStartTime' = now
            /\ rElapsedTime' = 0
            /\ workflowRunIds' = <<>>
            /\ idx' = 0
            /\ cycleRuns' = <<>>
            /\ pc' = "retry_check"
            /\ UNCHANGED effectVars
       ELSE /\ Fail("Timeout exceeded while attempting to get Run ID")
            /\ UNCHANGED <<attemptNo, elapsedTime, retryVars, cycleVars, cycleRuns>>
    /\ UNCHANGED <<now, platform, inputVars, commitId, foundWorkflow,
                   startTime, timeoutMs, rCalls, rEmpties, rCallAt, listed,
                   matchSeen, apiFailure>>
    /\ UNCHANGED <<concVars, queryVars, stepVars, apiVars>>

\* fault: the error retryOrDie throws is caught inside the search loop and
\* the cycle is skipped
FetchTimeoutSkipsCycle == FALSE

\* dispatch.ts:156, 205  the error retryOrDie throws is not caught inside the
\* search loop: it reaches the catch of applyWorkflowRunId
FetchTimeoutIsFatal == TRUE

\* dispatch.ts:123-126, 134  the test of retryOrDie's while loop; the producer
\* (getWorkflowRunIds, dispatch.ts:29-40) issues ListWorkflowRuns
RetryCheck ==
    /\ pc = "retry_check"
    /\ IF RetryGoesOn(rElapsedTime, rTimeoutMs)
       THEN /\ rElapsedTime' = now - rStartTime
            /\ rCalls' = rCalls + 1
            /\ rCallAt' = now
            /\ pc' = "list_runs"
            /\ UNCHANGED effectVars
       ELSE /\ IF FetchTimeoutIsFatal
               THEN Fail("Timed out while attempting to fetch data")
               ELSE /\ pc' = "cycle_sleep"
                    /\ UNCHANGED effectVars
            /\ UNCHANGED <<rElapsedTime, rCalls, rCallAt>>
    /\ UNCHANGED <<now, platform, inputVars, commitId, foundWorkflow, applyVars,
                   rStartTime, rTimeoutMs, cycleVars, rEmpties, listed, cycleRuns,
                   matchSeen, apiFailure>>
    /\ UNCHANGED <<concVars, queryVars, stepVars, apiVars>>

\* dispatch.ts:127  retryOrDie returns a response exactly when it is not empty
Returned(response) == Len(response) > 0

\* fault: the candidates of the first listing are kept for the later cycles
CycleCandidatesKept(response, earlier) ==
    IF earlier # <<>> THEN earlier ELSE response

\* dispatch.ts:156  const workflowRunIds: the candidates of a cycle are what
\* retryOrDie has just returned, whatever an earlier listing returned
CycleCandidates(response, earlier) == response

\* fault: a "Not Found" of the run listing is taken for an empty listing and
\* retried after the backoff
ListingRethrownUnlessNotFound(failure) == failure # "Not Found"

\* dispatch.ts:59-65, 126  the catch of getWorkflowRunIds rethrows whatever was
\* thrown, and retryOrDie awaits the producer outside any try: TRUE rethrows
ListingRethrown(failure) == TRUE

\* dispatch.ts:40-66, 126-131, 156-170  ListWorkflowRuns returns: a failure
\* leaves retryOrDie and the search loop, an empty list starts the 1 s
\* backoff, a non-empty list is returned by retryOrDie (its frame ends) and
\* the inspection of its first run starts
ListRunsDone ==
    /\ pc = "list_runs"
    /\ \/ \E ids \in RunLists, d \in CallLatencies :
            /\ now' = now + d
            /\ listed' = ids
            /\ IF Returned(ids)
               THEN /\ workflowRunIds' = CycleCandidates(ids, listed)
                    /\ idx' = 1
                    /\ platform' \in PlatformsFor(ids)
                    /\ rStartTime' = 0
                    /\ rTimeoutMs' = 0
                    /\ rElapsedTime' = 0
                    /\ rCalls' = 0
                    /\ rEmpties' = 0
                    /\ rCallAt' = 0
                    /\ pc' = "list_jobs"
               ELSE /\ rEmpties' = rEmpties + 1
                    /\ pc' = "retry_sleep"
                    /\ UNCHANGED <<workflowRunIds, idx, platform, retryVars,
                                   rCalls, rCallAt>>
            /\ UNCHANGED <<effectVars, apiFailure>>
       \/ \E f \in CallFailures :
            /\ IF ListingRethrown(f)
               THEN Fail(IF f = "status" THEN "Failed to get Workflow runs" ELSE f)
               ELSE pc' = "retry_sleep" /\ UNCHANGED effectVars
            /\ apiFailure' = f
            /\ UNCHANGED <<now, workflowRunIds, idx, platform, retryVars, rCalls,
                           rEmpties, rCallAt, listed>>
    /\ UNCHANGED <<inputVars, commitId, foundWorkflow, applyVars, cycleRuns,
                   matchSeen>>
    /\ UNCHANGED <<concVars, queryVars, stepVars, apiVars>>

\* dispatch.ts:131  the 1 s backoff of retryOrDie ends
RetrySleepDone ==
    /\ pc = "retry_sleep"
    /\ now' = now + RETRY_BACKOFF_MS
    /\ pc' = "retry_check"
    /\ UNCHANGED <<platform, inputVars, commitId, foundWorkflow, applyVars,
                   retryVars, cycleVars, effectVars, histVars>>
    /\ UNCHANGED <<concVars, queryVars, stepVars, apiVars>>

\* dispatch.ts:166-201  where the for loop goes after the candidate at
\* position i: the next candidate's ListJobsForRun, or the 5 s backoff
AfterCandidate(ids, i) == IF i < Len(ids) THEN "list_jobs" ELSE "cycle_sleep"

\* fault: the return after setOutput is missing, the for loop goes on
AfterMatchGoOn(ids, i) == AfterCandidate(ids, i)

\* dispatch.ts:187-188  after setOutput the function returns
AfterMatch(ids, i) == "done"

\* fault: the output is the most recent run of the list, not the matched one
ResolvedFirst(ids, i) == ids[1]

\* dispatch.ts:187  the run id that is set as the output
ResolvedRun(ids, i) == ids[i]

\* dispatch.ts:68-112, 166-197  ListJobsForRun of the current candidate
\* returns: a matching step sets the output and returns, Not Found is
\* swallowed, any other failure leaves the search loop
ListJobsDone ==
    /\ pc = "list_jobs"
    /\ LET runId == Candidate(workflowRunIds, idx)
           steps == JobSteps(platform[runId].jobs)
           onward == /\ pc' = AfterCandidate(workflowRunIds, idx)
                     /\ idx' = idx + 1
                     /\ UNCHANGED effectVars
           thrown(message) == IF Rethrown(message)
                              THEN Fail(message) /\ UNCHANGED idx
                              ELSE onward
       IN  /\ cycleRuns' = Append(cycleRuns, runId)
           /\ \/ /\ platform[runId].state = "ok"
                 /\ \E d \in CallLatencies : now' = now + d
                 /\ matchSeen' =
                      (matchSeen \/ \E k \in 1..Len(steps) :
                                       RegexTest(RegExpSource(commitId), steps[k]))
                 /\ IF StepsMatch(commitId, steps)
                    THEN /\ outputs' = Append(outputs, <<"runId", ResolvedRun(workflowRunIds, idx)>>)
                         /\ pc' = AfterMatch(workflowRunIds, idx)
                         /\ idx' = IF AfterMatch(workflowRunIds, idx) = "done" THEN idx
                                    ELSE idx + 1
                         /\ UNCHANGED <<failed, warnings>>
                    ELSE onward
                 /\ UNCHANGED apiFailure
              \/ /\ platform[runId].state = "notfound"
                 /\ \E d \in CallLatencies : now' = now + d
                 /\ thrown("Not Found")
                 /\ UNCHANGED <<matchSeen, apiFailure>>
              \/ \E f \in TransportFailures :
                 /\ thrown(IF f = "status" THEN "Failed to get Workflow Run Jobs" ELSE f)
                 /\ apiFailure' = f
                 /\ UNCHANGED <<now, matchSeen>>
    /\ UNCHANGED <<platform, inputVars, commitId, foundWorkflow, applyVars,
                   retryVars, workflowRunIds, rCalls, rEmpties, rCallAt, listed>>
    /\ UNCHANGED <<concVars, queryVars, stepVars, apiVars>>

\* dispatch.ts:199-202  the 5 s backoff between cycles ends; meanwhile the
\* runs on the platform may have changed
CycleSleepDone ==
    /\ pc = "cycle_sleep"
    /\ now' = now + WORKFLOW_JOB_STEPS_RETRY_MS
    /\ platform' = NotListed
    /\ pc' = "loop_check"
    /\ UNCHANGED <<inputVars, commitId, foundWorkflow, applyVars, retryVars,
                   cycleVars, effectVars, histVars>>
    /\ UNCHANGED <<concVars, queryVars, stepVars, apiVars>>

Next ==
    \/ RunStart
    \/ ListWorkflowsDone
    \/ DispatchDone
    \/ LoopCheck
    \/ RetryCheck
    \/ ListRunsDone
    \/ RetrySleepDone
    \/ ListJobsDone
    \/ CycleSleepDone

Spec == Init /\ [][Next]_vars

----------------------------------------------------------------------------
(* Two concurrent invocations of the action that dispatch the same         *)
(* workflow.  Each runs in a process of its own and the code keeps no       *)
(* state outside the locals of run() and applyWorkflowRunId, so the         *)
(* invocations share the platform only.  Time is left out here: what a loop *)
(* test finds when the clock is read is a choice, and cycles are counted.   *)

Invocations == {1, 2}

\* the most search cycles an invocation goes through
MaxConcCycles == 2

\* the markers the two callers pass as inputs.commitId: "M1", "M2", "M", "M."
ConcMarkers == {<<"M", "1">>, <<"M", "2">>, <<"M">>, <<"M", ".">>}

\* the dispatched workflow echoes its commitId input in a step name:
\* "echo <marker> done"
StepEcho(marker) == <<"e">> \o marker \o <<"d">>

\* the jobs of a run the dispatch with this marker created
JobsOf(marker) ==
    <<Job(1, <<StepCheckout>>), Job(2, <<StepCheckout, StepEcho(marker)>>)>>

\* the locals of an invocation that has issued nothing yet
Invocation(marker) ==
    [commitId |-> Str(marker), pc |-> "dispatch", workflowRunIds |-> <<>>,
     idx |-> 0, attemptNo |-> 0, runId |-> 0, failed |-> <<>>]

\* the responses ListWorkflowRuns can give: the runs of the workflow that
\* exist, any of them not yet listed, in any order
ConcRunLists ==
    {s \in UNION {[1..n -> 1..Len(remoteRuns)] : n \in 0..Len(remoteRuns)} :
        \A i, j \in 1..Len(s) : i # j => s[i] # s[j]}

ConcInit ==
    /\ NotStarted
    /\ invocations \in
          {[i \in Invocations |-> Invocation(m[i])] :
              m \in [Invocations -> ConcMarkers]}
    /\ remoteRuns = <<>>
    /\ configRef = <<>>
    /\ params = NotBuilt
    /\ responseJobs = <<>>
    /\ returnedSteps = NotReturned
    /\ ApiNotStarted

\* part_001:70-87 and dispatch.ts:139-146  the dispatch call of invocation i
\* returns: the platform has created a run from the inputs of this dispatch,
\* whose jobs are not queryable yet; applyWorkflowRunId is entered
ConcDispatchDone(i) ==
    /\ invocations[i].pc = "dispatch"
    /\ remoteRuns' = Append(remoteRuns, [creator |-> i, run |-> NotFoundYet])
    /\ invocations' = [invocations EXCEPT ![i].pc = "loop_check"]
    /\ UNCHANGED <<runVars, queryVars, stepVars, apiVars>>

\* the platform starts a run: ListJobsForRun answers its jobs from now on
ConcRunStarts(r) ==
    /\ r \in 1..Len(remoteRuns)
    /\ remoteRuns[r].run = NotFoundYet
    /\ remoteRuns' =
          [remoteRuns EXCEPT ![r].run =
              Queryable(JobsOf(invocations[remoteRuns[r].creator].commitId.text))]
    /\ UNCHANGED <<runVars, queryVars, stepVars, apiVars, invocations>>

\* dispatch.ts:148-156, 204  the test of the outer while loop of invocation
\* i: the first test finds no time elapsed; a later one finds the deadline
\* elapsed or not
ConcLoopCheck(i) ==
    /\ invocations[i].pc = "loop_check"
    /\ \/ /\ invocations[i].attemptNo < MaxConcCycles
          /\ invocations' =
                [invocations EXCEPT ![i].attemptNo = @ + 1,
                                    ![i].pc = "list_runs"]
       \/ /\ invocations[i].attemptNo > 0
          /\ invocations' =
                [invocations EXCEPT
                    ![i].failed = Append(@, "Timeout exceeded while attempting to get Run ID"),
                    ![i].pc = "done"]
    /\ UNCHANGED <<runVars, queryVars, stepVars, apiVars, remoteRuns>>

\* dispatch.ts:40-58, 123-134, 156-170  a ListWorkflowRuns call of invocation
\* i returns: retryOrDie returns a non-empty list and its first run is
\* inspected; after an empty list retryOrDie calls again or has timed out
ConcListRunsDone(i) ==
    /\ invocations[i].pc = "list_runs"
    /\ \E ids \in ConcRunLists :
          IF Returned(ids)
          THEN invocations' =
                 [invocations EXCEPT ![i].workflowRunIds = ids,
                                     ![i].idx = 1,
                                     ![i].pc = "list_jobs"]
          ELSE \/ UNCHANGED invocations
               \/ invocations' =
                    [invocations EXCEPT
                        ![i].failed = Append(@, "Timed out while attempting to fetch data"),
                        ![i].pc = "done"]
    /\ UNCHANGED <<runVars, queryVars, stepVars, apiVars, remoteRuns>>

\* dispatch.ts:166-201  the ListJobsForRun call of invocation i for its
\* current candidate returns (the 5 s backoff after the last candidate is
\* part of the step)
ConcListJobsDone(i) ==
    /\ invocations[i].pc = "list_jobs"
    /\ LET inv == invocations[i]
           ids == inv.workflowRunIds
           runId == Candidate(ids, inv.idx)
           steps == JobSteps(remoteRuns[runId].run.jobs)
           goto(p) == IF p = "cycle_sleep" THEN "loop_check" ELSE p
           at(p) == IF p = "list_jobs"
                    THEN [inv EXCEPT !.idx = @ + 1]
                    ELSE [inv EXCEPT !.pc = goto(p), !.idx = 0,
                                     !.workflowRunIds = <<>>]
           onward == at(AfterCandidate(ids, inv.idx))
           thrown(message) ==
               IF Rethrown(message)
               THEN [inv EXCEPT !.failed = Append(@, message), !.pc = "done",
                                !.idx = 0, !.workflowRunIds = <<>>]
               ELSE onward
       IN  \/ /\ remoteRuns[runId].run.state = "ok"
              /\ invocations' =
                    [invocations EXCEPT ![i] =
                        IF StepsMatch(inv.commitId, steps)
                        THEN [at(AfterMatch(ids, inv.idx)) EXCEPT
                                 !.runId = ResolvedRun(ids, inv.idx)]
                        ELSE onward]
           \/ /\ remoteRuns[runId].run.state = "notfound"
              /\ invocations' = [invocations EXCEPT ![i] = thrown("Not Found")]
           \/ \E f \in TransportFailures :
                 invocations' =
                    [invocations EXCEPT ![i] =
                        thrown(IF f = "status" THEN "Failed to get Workflow Run Jobs"
                               ELSE f)]
    /\ UNCHANGED <<runVars, queryVars, stepVars, apiVars, remoteRuns>>

ConcNext ==
    \/ \E i \in Invocations : ConcDispatchDone(i)
    \/ \E r \in 1..Len(remoteRuns) : ConcRunStarts(r)
    \/ \E i \in Invocations : ConcLoopCheck(i)
    \/ \E i \in Invocations : ConcListRunsDone(i)
    \/ \E i \in Invocations : ConcListJobsDone(i)

ConcSpec == ConcInit /\ [][ConcNext]_vars

----------------------------------------------------------------------------
(* The query of getWorkflowRunIds, for the refs a caller can pass.  A ref   *)
(* is a sequence of path segments: refs/heads/main is <<"refs", "heads",    *)
(* "main">>.                                                                *)

\* the longest ref, in segments
MaxRefLen == 3

RefSegments == {"refs", "heads", "tags", "main", "v1.0"}

Refs == UNION {[1..n -> RefSegments] : n \in 1..MaxRefLen}

\* getBranchName of ./utils, as the specification describes it: a ref of the
\* form refs/heads/<branch> yields <branch>, any other ref yields no branch
getBranchName(r) ==
    IF Len(r) >= 3 /\ r[1] = "refs" /\ r[2] = "heads"
    THEN Str(SubSeq(r, 3, Len(r)))
    ELSE Undefined

\* fault: the query is never scoped to the branch
ParamsUnscoped(branchName) ==
    [built |-> TRUE, branch |-> Undefined, per_page |-> 10]

\* dispatch.ts:32-37  params: branchName is truthy when it is a string that
\* is not empty
Params(branchName) ==
    IF branchName.defined /\ branchName.text # <<>>
    THEN [built |-> TRUE, branch |-> branchName, per_page |-> 5]
    ELSE [built |-> TRUE, branch |-> Undefined, per_page |-> 10]

QueryInit ==
    /\ NotStarted
    /\ invocations = <<>>
    /\ remoteRuns = <<>>
    /\ configRef \in Refs
    /\ params = NotBuilt
    /\ responseJobs = <<>>
    /\ returnedSteps = NotReturned
    /\ ApiNotStarted

\* dispatch.ts:31-40  getWorkflowRunIds builds params and issues the query
BuildParams ==
    /\ ~params.built
    /\ params' = Params(getBranchName(configRef))
    /\ UNCHANGED <<runVars, concVars, stepVars, apiVars, configRef>>

QueryNext == BuildParams

QuerySpec == QueryInit /\ [][QueryNext]_vars

----------------------------------------------------------------------------
(* The steps getWorkflowRunJobSteps returns, for the job lists a           *)
(* ListJobsForRun response can hold.                                        *)

\* the most jobs of a response and the most steps of a job
MaxJobs == 2
MaxStepsPerJob == 2

StepNames == {StepCheckout, StepEchoM1, StepEchoMX}

\* the steps property of a job: absent, or a list of step names
StepLists == UNION {[1..n -> StepNames] : n \in 0..MaxStepsPerJob}

JobResponses ==
    UNION {[1..n -> {JobNoSteps(0)} \cup {Job(0, st) : st \in StepLists}] :
              n \in 0..MaxJobs}

StepsInit ==
    /\ NotStarted
    /\ invocations = <<>>
    /\ remoteRuns = <<>>
    /\ configRef = <<>>
    /\ params = NotBuilt
    /\ responseJobs \in JobResponses
    /\ returnedSteps = NotReturned
    /\ ApiNotStarted

\* dispatch.ts:78-104  the response has status 200; the steps are collected
\* and returned
ReturnSteps ==
    /\ ~returnedSteps.returned
    /\ returnedSteps' = [returned |-> TRUE, steps |-> JobSteps(responseJobs)]
    /\ UNCHANGED <<runVars, concVars, queryVars, apiVars, responseJobs>>

StepsNext == ReturnSteps

StepsSpec == StepsInit /\ [][StepsNext]_vars

----------------------------------------------------------------------------
(* applyWorkflowRunId of api.ts: the run found by its steps is emitted      *)
(* after its URL has been fetched with GetRun. Time is left out: the search *)
(* loop ends after MaxApiCycles cycles.                                     *)

MaxApiCycles == 2

\* api.ts:7, 200  DISTINCT_ID, a uuid: hexadecimal digits and hyphens, none
\* of them special in a pattern
DistinctId == Str(<<"M", "1">>)

\* the outcomes of a GetRun call
UrlOutcomes == {"ok"} \cup CallFailures

\* api.ts:24-27, 38-46  the message of the error getWorkflowRunUrl throws
UrlMessage(f) == IF f = "status" THEN "Failed to get Workflow Run state" ELSE f

\* fault: the per-candidate catch of api.ts rethrows every error
ApiRethrownAlways(message) == TRUE

\* api.ts:223  the test of the per-candidate catch: TRUE rethrows
ApiRethrown(message) == message # "Not Found"

\* api.ts:241  core.setFailed(message); the function returns
ApiFail(message) ==
    /\ apiFailed' = Append(apiFailed, message)
    /\ apiPc' = "done"
    /\ UNCHANGED apiOutputs

\* api.ts:206-228  the for loop goes on after the candidate at apiIdx
ApiOnward ==
    /\ apiPc' = AfterCandidate(apiRunIds, apiIdx)
    /\ apiIdx' = apiIdx + 1
    /\ UNCHANGED <<apiOutputs, apiFailed>>

\* api.ts:222-227  an error thrown inside the per-candidate try
ApiThrown(message) ==
    IF ApiRethrown(message) THEN ApiFail(message) /\ UNCHANGED apiIdx
    ELSE ApiOnward

ApiInit ==
    /\ NotStarted
    /\ invocations = <<>>
    /\ remoteRuns = <<>>
    /\ configRef = <<>>
    /\ params = NotBuilt
    /\ responseJobs = <<>>
    /\ returnedSteps = NotReturned
    /\ apiPc = "list_runs"
    /\ apiPlatform = NotListed
    /\ apiRunIds = <<>>
    /\ apiIdx = 0
    /\ apiAttemptNo = 1
    /\ apiOutputs = <<>>
    /\ apiFailed = <<>>
    /\ urlCalls = <<>>

\* api.ts:196  retryOrDie returns a non-empty list of run ids, or throws
ApiListRunsDone ==
    /\ apiPc = "list_runs"
    /\ \/ \E ids \in RunLists :
            /\ Returned(ids)
            /\ apiRunIds' = ids
            /\ apiIdx' = 1
            /\ apiPlatform' \in PlatformsFor(ids)
            /\ apiPc' = "list_jobs"
            /\ UNCHANGED <<apiOutputs, apiFailed>>
       \/ /\ ApiFail("Timed out while attempting to fetch data")
          /\ UNCHANGED <<apiRunIds, apiIdx, apiPlatform>>
    /\ UNCHANGED <<apiAttemptNo, urlCalls>>
    /\ UNCHANGED <<runVars, concVars, queryVars, stepVars>>

\* api.ts:208-211, 222-227  getWorkflowRunJobSteps returns for the candidate
\* at apiIdx: when a step matches, GetRun is called for the candidate
ApiListJobsDone ==
    /\ apiPc = "list_jobs"
    /\ LET id == apiRunIds[apiIdx]
       IN  \/ /\ apiPlatform[id].state = "ok"
              /\ IF StepsMatch(DistinctId, JobSteps(apiPlatform[id].jobs))
                 THEN /\ apiPc' = "get_run"
                      /\ UNCHANGED <<apiIdx, apiOutputs, apiFailed>>
                 ELSE ApiOnward
           \/ /\ apiPlatform[id].state = "notfound"
              /\ ApiThrown("Not Found")
           \/ \E f \in TransportFailures :
                 ApiThrown(IF f = "status" THEN "Failed to get Workflow Run Jobs" ELSE f)
    /\ UNCHANGED <<apiPlatform, apiRunIds, apiAttemptNo, urlCalls>>
    /\ UNCHANGED <<runVars, concVars, queryVars, stepVars>>

\* api.ts:212-219, 15-47  getWorkflowRunUrl returns or throws: on its return
\* the run id is set as output and the function returns
ApiGetRunDone ==
    /\ apiPc = "get_run"
    /\ \E o \in UrlOutcomes :
          /\ urlCalls' = Append(urlCalls, <<apiRunIds[apiIdx], o>>)
          /\ IF o = "ok"
             THEN /\ apiOutputs' = Append(apiOutputs, apiRunIds[apiIdx])
                  /\ apiPc' = "done"
                  /\ UNCHANGED <<apiIdx, apiFailed>>
             ELSE ApiThrown(UrlMessage(o))
    /\ UNCHANGED <<apiPlatform, apiRunIds, apiAttemptNo>>
    /\ UNCHANGED <<runVars, concVars, queryVars, stepVars>>

\* api.ts:188-190, 232-235  the 5 s backoff ends and the while test is made
ApiCycleSleepDone ==
    /\ apiPc = "cycle_sleep"
    /\ IF apiAttemptNo < MaxApiCycles
       THEN /\ apiAttemptNo' = apiAttemptNo + 1
            /\ apiPc' = "list_runs"
            /\ apiPlatform' = NotListed
            /\ apiRunIds' = <<>>
            /\ apiIdx' = 0
            /\ UNCHANGED <<apiOutputs, apiFailed>>
       ELSE /\ ApiFail("Timeout exceeded while attempting to get Run ID")
            /\ UNCHANGED <<apiAttemptNo, apiPlatform, apiRunIds, apiIdx>>
    /\ UNCHANGED urlCalls
    /\ UNCHANGED <<runVars, concVars, queryVars, stepVars>>

ApiNext ==
    \/ ApiListRunsDone
    \/ ApiListJobsDone
    \/ ApiGetRunDone
    \/ ApiCycleSleepDone

ApiSpec == ApiInit /\ [][ApiNext]_vars

----------------------------------------------------------------------------
(* The overall timeout applyWorkflowRunId works with, for the values        *)
(* workflow_timeout_seconds can have: the dispatch call has been issued,    *)
(* it returns, and the search loop makes its first test.                    *)

MaxConfiguredSeconds == 10

\* core.getInput("workflow_timeout_seconds"): "", a string that is no
\* number, or the digits of an integer, which may be 0 or negative
ConfiguredTimeouts ==
    {EmptyValue, NaNValue}
    \cup {IntValue(n) : n \in (0 - MaxConfiguredSeconds)..MaxConfiguredSeconds}

TimeoutInit ==
    /\ pc = "dispatch"
    /\ now = 0
    /\ platform = NotListed
    /\ workflowRef = <<>>
    /\ inputs = [commitId |-> Str(<<"M", "1">>)]
    /\ timeoutInput \in ConfiguredTimeouts
    /\ commitId = Str(<<"M", "1">>)
    /\ foundWorkflow \in {Workflows[k].id : k \in 1..Len(Workflows)}
    /\ startTime = 0
    /\ timeoutMs = 0
    /\ attemptNo = 0
    /\ elapsedTime = 0
    /\ rStartTime = 0
    /\ rTimeoutMs = 0
    /\ rElapsedTime = 0
    /\ workflowRunIds = <<>>
    /\ idx = 0
    /\ outputs = <<>>
    /\ failed = <<>>
    /\ warnings = <<>>
    /\ rCalls = 0
    /\ rEmpties = 0
    /\ rCallAt = 0
    /\ listed = <<>>
    /\ cycleRuns = <<>>
    /\ matchSeen = FALSE
    /\ apiFailure = "none"
    /\ invocations = <<>>
    /\ remoteRuns = <<>>
    /\ configRef = <<>>
    /\ params = NotBuilt
    /\ responseJobs = <<>>
    /\ returnedSteps = NotReturned
    /\ ApiNotStarted

\* part_001:70-87 and dispatch.ts:139-146  the dispatch call returns and
\* applyWorkflowRunId is entered with the configured timeout
DispatchReturns ==
    /\ pc = "dispatch"
    /\ EnterApply(timeoutInput)
    /\ UNCHANGED <<now, platform, workflowRef, inputs, commitId, foundWorkflow,
                   retryVars, cycleVars, rCalls, rEmpties, rCallAt, listed,
                   cycleRuns, matchSeen>>
    /\ UNCHANGED <<concVars, queryVars, stepVars, apiVars>>

\* dispatch.ts:148-150, 204  the first test of the search loop
FirstLoopCheck == attemptNo = 0 /\ LoopCheck

TimeoutNext == DispatchReturns \/ FirstLoopCheck

TimeoutSpec == TimeoutInit /\ [][TimeoutNext]_vars

----------------------------------------------------------------------------
(* Properties *)

\* the platform answers ListJobsForRun for run r with steps of which at least
\* one is matched by the marker pattern
RunMatches(r) ==
    /\ platform[r].state = "ok"
    /\ \E k \in 1..Len(JobSteps(platform[r].jobs)) :
          RegexTest(RegExpSource(commitId), JobSteps(platform[r].jobs)[k])

\* the inspection of the current candidate list is over
SweepOver == pc \in {"cycle_sleep", "done"}

RunIdOutput(r) == << <<"runId", r>> >>

\* C1: when the candidate list of a cycle holds exactly one run with a step
\* name the marker matches, and the inspections of the other runs succeed
\* without a match, then once the list has been gone through with no call
\* failing, the output is that run id, wherever the run is in the list.
C1_ResolvesTheOnlyMatch ==
    \A r \in RunIds :
        ( /\ SweepOver
          /\ failed = <<>>
          /\ r \in Listed(workflowRunIds)
          /\ RunMatches(r)
          /\ \A q \in Listed(workflowRunIds) \ {r} :
                platform[q].state = "ok" /\ ~RunMatches(q) )
        => RunIdOutputs = RunIdOutput(r)

\* the scenario of the specification: two candidates, only the second one
\* carries the marker "M1", and the second one is the output
C1_Witness ==
    /\ pc = "done"
    /\ commitId = Str(<<"M", "1">>)
    /\ Len(workflowRunIds) = 2
    /\ platform[workflowRunIds[1]] = Queryable(JobsMX)
    /\ platform[workflowRunIds[2]] = Queryable(JobsM1)
    /\ RunIdOutputs = RunIdOutput(workflowRunIds[2])

\* C2: a run id is an output only if the last ListWorkflowRuns response (the
\* enumeration of the current cycle) holds it and its ListJobsForRun call of
\* the current cycle returned a step name the marker pattern matches.
C2_EmittedOnlyIfMatched ==
    \A k \in 1..Len(RunIdOutputs) :
        LET r == RunIdOutputs[k][2]
        IN  /\ r \in Listed(listed)
            /\ Len(cycleRuns) > 0
            /\ cycleRuns[Len(cycleRuns)] = r
            /\ RunMatches(r)

\* a run id is the output of the second cycle, after a run that did not match
C2_Witness ==
    /\ attemptNo = 2
    /\ Len(cycleRuns) = 2
    /\ RunIdOutputs = RunIdOutput(cycleRuns[2])
    /\ ~RunMatches(cycleRuns[1])

\* applyWorkflowRunId has been entered (run() sets the workflowId output
\* right before it calls applyWorkflowRunId)
SearchBegan == \E k \in 1..Len(outputs) : outputs[k][1] = "workflowId"

TimeoutMessages ==
    {"Timeout exceeded while attempting to get Run ID",
     "Timed out while attempting to fetch data"}

C4_ExactlyOneTerminalEffect ==
    /\ Len(RunIdOutputs) + Len(failed) <= 1
    /\ (pc = "done" /\ SearchBegan) => Len(RunIdOutputs) + Len(failed) = 1

\* the search has ended Failed in the middle of a candidate list: the second
\* ListJobsForRun call answered with a status other than 200
C4_Witness ==
    /\ pc = "done"
    /\ SearchBegan
    /\ apiFailure = "status"
    /\ Len(cycleRuns) = 2
    /\ failed = <<"Failed to get Workflow Run Jobs">>
    /\ RunIdOutputs = <<>>

\* the runs inspected so far in the current cycle are a prefix of the last
\* ListWorkflowRuns response, and none but the last of them matched
InspectedInListOrder ==
    /\ Len(cycleRuns) <= Len(listed)
    /\ \A k \in 1..Len(cycleRuns) : cycleRuns[k] = listed[k]
    /\ \A k \in 1..(Len(cycleRuns) - 1) : ~RunMatches(cycleRuns[k])

\* once a run id is an output nothing more happens: no ListJobsForRun call
\* returns, no ListWorkflowRuns call is issued, the function has returned
StopsAtFirstMatch ==
    RunIdOutputs # <<>> =>
        /\ pc = "done"
        /\ pc' = "done"
        /\ cycleRuns' = cycleRuns
        /\ rCalls' = rCalls
        /\ outputs' = outputs

\* C5: the candidates of a cycle are inspected in the order of the
\* ListWorkflowRuns response; the first one with a matching step becomes the
\* output, and after that no candidate is inspected and no run-listing or
\* job-listing call is issued.
C5_FirstMatchWins ==
    /\ [](InspectedInListOrder)
    /\ [](RunIdOutputs # <<>> => RunIdOutputs = RunIdOutput(cycleRuns[Len(cycleRuns)]))
    /\ [][StopsAtFirstMatch]_vars

\* both candidates of the list match; the first one is the output and the
\* second one has not been inspected
C5_Witness ==
    /\ pc = "done"
    /\ Len(workflowRunIds) = 2
    /\ RunMatches(workflowRunIds[1])
    /\ RunMatches(workflowRunIds[2])
    /\ cycleRuns = <<workflowRunIds[1]>>
    /\ RunIdOutputs = RunIdOutput(workflowRunIds[1])

\* a step in which ListJobsForRun answers Not Found for the current
\* candidate: no failure signal, no output, and the next candidate of the
\* same list is inspected (after the last one the cycle ends with its backoff)
NotFoundIsSkipped ==
    ( /\ pc = "list_jobs"
      /\ platform[workflowRunIds[idx]].state = "notfound"
      /\ apiFailure' = "none" )
    => /\ failed' = <<>>
       /\ outputs' = outputs
       /\ workflowRunIds' = workflowRunIds
       /\ idx' = idx + 1
       /\ pc' = IF idx < Len(workflowRunIds) THEN "list_jobs" ELSE "cycle_sleep"

\* the first run of the list, in list order, that has a matching step
FirstMatching(ids) ==
    ids[CHOOSE k \in 1..Len(ids) :
            RunMatches(ids[k]) /\ \A m \in 1..(k - 1) : ~RunMatches(ids[m])]

\* when the list has been gone through with no failure signal, the first
\* run with a matching step is the output, whichever runs answered Not Found
MatchAfterNotFoundResolved ==
    ( /\ SweepOver
      /\ failed = <<>>
      /\ \E k \in 1..Len(workflowRunIds) : RunMatches(workflowRunIds[k]) )
    => RunIdOutputs = RunIdOutput(FirstMatching(workflowRunIds))

\* C6: a Not Found of one candidate's step inspection neither fails the
\* search nor ends the cycle: the next candidate of the list is inspected,
\* and a later candidate with a matching step is still the output.
C6_NotFoundIsSkipped ==
    /\ [][NotFoundIsSkipped]_vars
    /\ [](MatchAfterNotFoundResolved)

\* the first candidate answered Not Found and the second one is the output
C6_Witness ==
    /\ pc = "done"
    /\ Len(workflowRunIds) = 2
    /\ platform[workflowRunIds[1]] = NotFoundYet
    /\ cycleRuns = workflowRunIds
    /\ RunIdOutputs = RunIdOutput(workflowRunIds[2])

\* the failures of a run-listing or step-inspection call other than Not Found
FatalFailures == {"status", "Server Error"}

\* after such a failure the function has ended with one failure signal and
\* without a run id output
FailedAfterFatalFailure ==
    apiFailure \in FatalFailures =>
        /\ pc = "done"
        /\ Len(failed) = 1
        /\ failed[1] \notin TimeoutMessages
        /\ RunIdOutputs = <<>>

\* and nothing follows it: no candidate is inspected, no cycle begins, no
\* ListWorkflowRuns call is issued, nothing is emitted
NothingAfterFatalFailure ==
    apiFailure \in FatalFailures =>
        /\ pc' = "done"
        /\ cycleRuns' = cycleRuns
        /\ attemptNo' = attemptNo
        /\ rCalls' = rCalls
        /\ outputs' = outputs
        /\ failed' = failed

\* C7: a run-listing or step-inspection call that fails with a failure other
\* than Not Found ends the search Failed: the failure signal is emitted, no
\* further candidate is inspected, no further cycle begins, no run id is
\* emitted.
C7_OtherFailuresAreFatal ==
    /\ [](FailedAfterFatalFailure)
    /\ [][NothingAfterFatalFailure]_vars

\* the inspection of the first of two candidates failed with a request error
\* other than Not Found; the second candidate has not been inspected
C7_Witness ==
    /\ pc = "done"
    /\ apiFailure = "Server Error"
    /\ Len(workflowRunIds) = 2
    /\ cycleRuns = <<workflowRunIds[1]>>
    /\ failed = <<"Server Error">>

FetchTimedOut == failed = <<"Timed out while attempting to fetch data">>

\* the step in which retryOrDie gives up: the function ends Failed at once
FetchTimeoutEndsSearch ==
    (pc = "retry_check" /\ pc' \notin {"retry_check", "list_runs"})
    => /\ pc' = "done"
       /\ FetchTimedOut'
       /\ now' = now
       /\ attemptNo' = attemptNo
       /\ outputs' = outputs

\* C8: when retryOrDie times out in a cycle, every ListWorkflowRuns response
\* of that cycle having been empty, the search ends Failed: no candidate of
\* the cycle is inspected, no 5 s backoff and no new cycle follow.
C8_FetchTimeoutIsFatal ==
    /\ [][FetchTimeoutEndsSearch]_vars
    /\ [](FetchTimedOut =>
            /\ pc = "done"
            /\ rCalls >= 1
            /\ rEmpties = rCalls
            /\ cycleRuns = <<>>
            /\ RunIdOutputs = <<>>)
    /\ [][FetchTimedOut => (pc' = "done" /\ now' = now /\ attemptNo' = attemptNo
                             /\ cycleRuns' = cycleRuns /\ rCalls' = rCalls)]_vars

\* the second cycle's run listing stayed empty until retryOrDie timed out
C8_Witness ==
    /\ pc = "done"
    /\ FetchTimedOut
    /\ attemptNo = 2
    /\ rCalls >= 2
    /\ rEmpties = rCalls

\* C9 as stated: a producer that is empty on its first N calls, with
\* N x 1000 ms < timeoutMs, is asked an (N+1)-th time; that is, retryOrDie
\* never gives up after N empty results with N x 1000 ms < timeoutMs.
C9_AsStated ==
    FetchTimedOut => ~(rEmpties * RETRY_BACKOFF_MS < rTimeoutMs)

\* after N empty results retryOrDie asks the producer again when its N-th
\* call was issued less than timeoutMs after entry (N = 0: when timeoutMs > 0)
AsksAgainWithinBudget ==
    ( /\ pc = "retry_check"
      /\ rEmpties = rCalls
      /\ IF rCalls = 0 THEN rTimeoutMs > 0
         ELSE rCallAt - rStartTime < rTimeoutMs )
    => (pc' = "list_runs" /\ rCalls' = rCalls + 1)

\* the first non-empty response is what retryOrDie returns, after one call
\* more than it has received empty results; an empty one is not returned
ReturnsFirstNonEmpty ==
    (pc = "list_runs" /\ apiFailure' = "none")
    => IF listed' # <<>>
       THEN /\ pc' = "list_jobs"
            /\ workflowRunIds' = listed'
            /\ rCalls = rEmpties + 1
       ELSE /\ pc' = "retry_sleep"
            /\ rEmpties' = rCalls

\* C9, amended: given a producer that is empty on its first N calls and not
\* empty on call N+1, retryOrDie returns that sequence after exactly N+1
\* calls provided its N-th call was issued less than timeoutMs after entry.
C9_ReturnsWithinBudget ==
    /\ [][AsksAgainWithinBudget]_vars
    /\ [][ReturnsFirstNonEmpty]_vars

\* the third producer call has been issued after two empty results, more
\* than 2 x 1000 ms after entry because a call took time
C9_Witness ==
    /\ pc = "list_runs"
    /\ rCalls = 3
    /\ rEmpties = 2
    /\ rCallAt - rStartTime > 2 * RETRY_BACKOFF_MS
    /\ rCallAt - rStartTime < rTimeoutMs + RETRY_BACKOFF_MS

\* retryOrDie is running and every producer call so far returned empty
OnlyEmptySoFar ==
    /\ pc \in {"retry_check", "list_runs", "retry_sleep"}
    /\ rEmpties = rCalls

\* C10: with a producer that is empty on every call retryOrDie returns no
\* value (what it hands to the inspection is never empty), its Timeout
\* comes only after more than timeoutMs since entry, and it comes: with
\* one second between calls, the calls made are bounded by the budget.
C10_AlwaysEmptyTimesOut ==
    /\ (pc = "list_jobs" => workflowRunIds # <<>>)
    /\ (pc = "retry_sleep" => listed = <<>> /\ failed = <<>>)
    /\ (FetchTimedOut =>
          /\ rEmpties = rCalls
          /\ now - rStartTime > rTimeoutMs
          /\ rCalls >= 1)
    /\ ((OnlyEmptySoFar \/ FetchTimedOut) =>
          /\ now - rStartTime >= rEmpties * RETRY_BACKOFF_MS - RETRY_BACKOFF_MS
          /\ (rCalls >= 2 =>
                (rCalls - 2) * RETRY_BACKOFF_MS < rTimeoutMs))

\* retryOrDie gave up in the first cycle after one call per second of the
\* budget and one more, every one of them empty and immediate
C10_Witness ==
    /\ FetchTimedOut
    /\ attemptNo = 1
    /\ rCalls = MaxTimeoutSeconds + 1
    /\ rEmpties = rCalls
    /\ now - rStartTime = rTimeoutMs + RETRY_BACKOFF_MS

DeadlineTimedOut == failed = <<"Timeout exceeded while attempting to get Run ID">>

\* the search has gone through attemptNo cycles in each of which the first
\* ListWorkflowRuns response was a candidate list, no call took time and no
\* step matched: nothing but the 5 s backoffs has advanced the clock
OnlyBackoffsSoFar ==
    /\ ~matchSeen
    /\ apiFailure = "none"
    /\ attemptNo >= 1
    /\ now - startTime = attemptNo * WORKFLOW_JOB_STEPS_RETRY_MS

\* C11 as stated: with an overall timeout of T seconds and every cycle
\* returning a candidate list with no matching step, the search fails with
\* the Timeout at an elapsed time t with T <= t <= T + 5 s.
C11_AsStated ==
    (DeadlineTimedOut /\ OnlyBackoffsSoFar)
    => /\ timeoutMs <= now - startTime
       /\ now - startTime <= timeoutMs + WORKFLOW_JOB_STEPS_RETRY_MS

\* the pattern built from the marker of invocation i matches a step name of
\* the runs the dispatch of invocation j creates
CrossMatch(i, j) ==
    StepsMatch(invocations[i].commitId,
               JobSteps(JobsOf(invocations[j].commitId.text)))

\* every invocation that has set its runId output has set it to a run its
\* own dispatch created
ResolvedOwnRun ==
    \A i \in Invocations :
        invocations[i].runId # 0 =>
            remoteRuns[invocations[i].runId].creator = i

\* a marker in which no character is special in a regular expression
LiteralMarker(marker) == \A k \in 1..Len(marker.text) : marker.text[k] # "."

NothingAfterDisabled ==
    apiFailure = "disabled" => UNCHANGED runVars

\* C13: when the dispatch call fails because the workflow is disabled, run()
\* completes with a warning, without the failure signal, without a run id
\* output, and without a run-listing or job-listing call ever being issued.
C13_DisabledIsNoFailure ==
    /\ [](apiFailure = "disabled" =>
            /\ pc = "done"
            /\ failed = <<>>
            /\ outputs = <<>>
            /\ warnings = <<"Workflow is disabled, no action was taken">>
            /\ attemptNo = 0
            /\ rCalls = 0
            /\ listed = <<>>
            /\ cycleRuns = <<>>)
    /\ [][NothingAfterDisabled]_vars

\* the workflow was found by its file name and its dispatch was refused
C13_Witness ==
    /\ apiFailure = "disabled"
    /\ foundWorkflow = 2
    /\ pc = "done"

\* applyWorkflowRunId has ended Resolved or Failed
Terminal ==
    /\ pc = "done"
    /\ (RunIdOutputs # <<>> \/ failed # <<>>)

Searching == SearchBegan /\ pc # "done"

\* how far the search has come: the cycle, the phase of the cycle (run
\* listing, inspection, backoff, loop test), the position within the phase
Rank ==
    <<attemptNo,
      CASE pc \in {"retry_check", "list_runs", "retry_sleep"} -> 1
        [] pc = "list_jobs" -> 2
        [] pc = "cycle_sleep" -> 3
        [] OTHER -> 4,
      CASE pc = "retry_check" -> 3 * rCalls
        [] pc = "list_runs" -> 3 * rCalls - 2
        [] pc = "retry_sleep" -> 3 * rCalls - 1
        [] pc = "list_jobs" -> idx
        [] OTHER -> 0>>

LexLess(a, b) ==
    \/ a[1] < b[1]
    \/ a[1] = b[1] /\ a[2] < b[2]
    \/ a[1] = b[1] /\ a[2] = b[2] /\ a[3] < b[3]

\* every step of the search ends it or takes it further
SearchAdvances == Searching => (pc' = "done" \/ LexLess(Rank, Rank'))

\* the clock advancing with every backoff, the deadlines bound how far the
\* search can come: the cycles by the overall timeout, the producer calls
\* of a cycle by the fetch timeout, the inspections by the candidate list
SearchIsBounded ==
    Searching =>
        /\ attemptNo >= 2 =>
              (attemptNo - 2) * WORKFLOW_JOB_STEPS_RETRY_MS < timeoutMs
        /\ rCalls >= 2 => (rCalls - 2) * RETRY_BACKOFF_MS < rTimeoutMs
        /\ pc = "list_jobs" => idx <= Len(workflowRunIds)
        /\ Len(workflowRunIds) <= Len(listed)

\* C14: an applyWorkflowRunId that has been entered cannot search forever,
\* whatever the platform returns: every completed call or backoff takes the
\* search further in an order that the timeouts bound, and when the
\* function has ended it has ended Resolved or Failed.
C14_SearchTerminates ==
    /\ [][SearchAdvances]_vars
    /\ [](SearchIsBounded)
    /\ []((pc = "done" /\ SearchBegan) => Terminal)

\* the search is in its second cycle, waiting for the run listing after an
\* empty response, with no failure and no output yet
C14_Witness ==
    /\ SearchBegan
    /\ pc = "retry_sleep"
    /\ attemptNo = 2
    /\ rEmpties >= 1
    /\ failed = <<>>
    /\ RunIdOutputs = <<>>

RefsHeadsMain == <<"refs", "heads", "main">>
RefsTagsV1 == <<"refs", "tags", "v1.0">>

\* C15: the run-listing query is scoped to the branch, with a page size of
\* 5, exactly when a branch name is derived from the ref, and is unscoped
\* with a page size of 10 otherwise; refs/heads/main gives branch main,
\* refs/tags/v1.0 gives no branch.
C15_QueryScopedByBranch ==
    params.built =>
        /\ params.branch.defined <=> getBranchName(configRef).defined
        /\ params.branch.defined =>
              (params.branch = getBranchName(configRef) /\ params.per_page = 5)
        /\ ~params.branch.defined => params.per_page = 10
        /\ configRef = RefsHeadsMain =>
              (params.branch = Str(<<"main">>) /\ params.per_page = 5)
        /\ configRef = RefsTagsV1 =>
              (~params.branch.defined /\ params.per_page = 10)

\* the query for refs/heads/main has been built
C15_Witness ==
    /\ configRef = RefsHeadsMain
    /\ params.built
    /\ params.branch = Str(<<"main">>)

\* the step name contains the text as a literal substring
ContainsLiteral(text, step) ==
    \E i \in 1..(Len(step) - Len(text) + 1) :
        SubSeq(step, i, i + Len(text) - 1) = text

\* C16 as stated: a step name matches the marker exactly when it contains
\* the raw marker string as a literal substring; so a run that has become
\* the output has a step name that contains the marker literally, and a run
\* inspected with such a step name is not passed over.
C16_AsStated ==
    commitId.defined =>
        /\ \A k \in 1..Len(RunIdOutputs) :
              \E n \in 1..Len(JobSteps(platform[RunIdOutputs[k][2]].jobs)) :
                  ContainsLiteral(commitId.text,
                                  JobSteps(platform[RunIdOutputs[k][2]].jobs)[n])
        /\ \A r \in Listed(cycleRuns) :
              ( /\ RunIdOutputs = <<>>
                /\ platform[r].state = "ok" )
              => ~\E n \in 1..Len(JobSteps(platform[r].jobs)) :
                    ContainsLiteral(commitId.text, JobSteps(platform[r].jobs)[n])

Min(a, b) == IF a < b THEN a ELSE b

\* retryOrDie is running for the enumeration of the current cycle
Enumerating == pc \in {"retry_check", "list_runs", "retry_sleep"}

\* C17 as stated: the timeout retryOrDie has been given in a search cycle is
\* min(60 s, remaining overall budget), the remaining budget being the
\* overall timeout minus the time elapsed since the resolution started (as
\* read at the top of the cycle).
C17_AsStated ==
    Enumerating =>
        rTimeoutMs = Min(WORKFLOW_FETCH_TIMEOUT_MS, timeoutMs - elapsedTime)

\* C18 as stated: a new search cycle begins after the 5 s backoff only if the
\* overall deadline has not elapsed then; so the first enumeration call of
\* a cycle after the first is issued no later than start + overall timeout.
C18_AsStated ==
    ( /\ pc = "list_runs"
      /\ attemptNo >= 2
      /\ rCalls = 1 )
    => rCallAt <= startTime + timeoutMs

\* C19 as stated: no producer call of retryOrDie starts later than
\* entry + timeoutMs (so no value can come from such a call), and the next
\* loop test after an empty result comes at least 1 s after the call.
C19_AsStated ==
    /\ pc = "list_runs" => rCallAt <= rStartTime + rTimeoutMs
    /\ (pc = "retry_check" /\ rCalls >= 1) => now >= rCallAt + RETRY_BACKOFF_MS

\* a cycle begins with no candidates and with retryOrDie entered anew
CycleListsAfresh ==
    (pc = "loop_check" /\ pc' # "done")
    => /\ pc' = "retry_check"
       /\ workflowRunIds' = <<>>
       /\ rCalls' = 0
       /\ cycleRuns' = <<>>

\* the inspection is entered only with the response a ListWorkflowRuns call
\* of the cycle has just given
InspectionFromListing ==
    (pc # "list_jobs" /\ pc' = "list_jobs")
    => /\ pc = "list_runs"
       /\ rCalls >= 1
       /\ listed' # <<>>
       /\ workflowRunIds' = listed'

\* the runs inspected are runs of that response, each once, in its order; a
\* cycle that ends without a match has inspected all of them
InspectsThatListing ==
    pc \in {"list_jobs", "cycle_sleep"} =>
        /\ workflowRunIds = listed
        /\ Len(cycleRuns) <= Len(listed)
        /\ \A k \in 1..Len(cycleRuns) : cycleRuns[k] = listed[k]
        /\ pc = "cycle_sleep" => cycleRuns = listed

\* a run with a matching step in the listing of a cycle after the first is
\* the output when the list has been gone through with no failure signal
LaterCycleResolves ==
    ( /\ SweepOver
      /\ attemptNo >= 2
      /\ failed = <<>>
      /\ \E k \in 1..Len(listed) : RunMatches(listed[k]) )
    => RunIdOutputs = RunIdOutput(FirstMatching(listed))

\* C20: every search cycle issues a ListWorkflowRuns call of its own and
\* inspects exactly the run ids that call returned, never ids of an earlier
\* cycle; so a marked run in the listing of a later cycle is resolved in
\* that cycle.
C20_EnumerationIsRequeried ==
    /\ [][CycleListsAfresh]_vars
    /\ [][InspectionFromListing]_vars
    /\ [](InspectsThatListing)
    /\ [](LaterCycleResolves)

\* the second cycle has listed two runs and resolved to the second of them
C20_Witness ==
    /\ pc = "done"
    /\ attemptNo = 2
    /\ Len(listed) = 2
    /\ cycleRuns = listed
    /\ RunIdOutputs = RunIdOutput(listed[2])

\* a run-listing or job-listing call is in flight or has been issued
ListingIssued ==
    \/ pc \in {"list_runs", "retry_sleep", "list_jobs", "cycle_sleep"}
    \/ rCalls > 0
    \/ listed # <<>>
    \/ cycleRuns # <<>>

\* the steps of run() come in one order and none comes twice: the dispatch
\* call is issued only by the step that received the workflow list, for a
\* workflow of the list that the selector matches; a selector that matches
\* none gives a failure signal and no dispatch call; the search is entered
\* only from the dispatch call
CallsInOrder ==
    /\ pc' # "start"
    /\ pc' = "list_workflows" => pc = "start"
    /\ pc' = "dispatch" =>
          /\ pc = "list_workflows"
          /\ \E k \in 1..Len(Workflows) :
                /\ Workflows[k].id = foundWorkflow'
                /\ WorkflowMatches(Workflows[k], workflowRef)
    /\ ( /\ pc = "list_workflows"
         /\ \A k \in 1..Len(Workflows) : ~WorkflowMatches(Workflows[k], workflowRef) )
       => (pc' = "done" /\ failed' # <<>>)
    /\ (pc' = "loop_check" /\ ~SearchBegan) => pc = "dispatch"
    /\ pc' = "retry_check" => pc \in {"loop_check", "retry_sleep"}

\* C21: the dispatch call is issued at most once and only after the selector
\* matched a listed workflow (no match: a failure and no dispatch call), and
\* no run-listing or job-listing call is issued unless the dispatch call
\* has returned successfully.
C21_CallsAreOrdered ==
    /\ [][CallsInOrder]_vars
    /\ [](pc = "dispatch" => (foundWorkflow # 0 /\ ~SearchBegan /\ ~ListingIssued))
    /\ [](ListingIssued => (SearchBegan /\ foundWorkflow # 0 /\ warnings = <<>>))
    /\ [](~SearchBegan => (attemptNo = 0 /\ pc \notin {"loop_check", "retry_check"}))

\* the first run-listing call is in flight, after the dispatch of the
\* workflow selected by its file name returned
C21_Witness ==
    /\ pc = "list_runs"
    /\ foundWorkflow = 2
    /\ SearchBegan
    /\ attemptNo = 1
    /\ rCalls = 1

\* the places <<job, step>> of the response at which the name is a step
PlacesOf(name) ==
    {p \in (1..Len(responseJobs)) \X (1..MaxStepsPerJob) :
        /\ responseJobs[p[1]].hasSteps
        /\ p[2] <= Len(responseJobs[p[1]].steps)
        /\ responseJobs[p[1]].steps[p[2]] = name}

\* place p comes before place q when the steps are read job by job
PlaceBefore(p, q) == p[1] < q[1] \/ (p[1] = q[1] /\ p[2] < q[2])

FirstPlaceOf(name) ==
    CHOOSE p \in PlacesOf(name) :
        \A q \in PlacesOf(name) : p = q \/ PlaceBefore(p, q)

\* C22: the steps returned hold each distinct step name of the jobs exactly
\* once, in the order of first occurrence when the jobs are read one after
\* the other; a job without steps contributes nothing, and no name is
\* returned that is not a step of some job.
C22_StepsDistinctInOrder ==
    returnedSteps.returned =>
        LET st == returnedSteps.steps
        IN  /\ \A i, j \in 1..Len(st) : i # j => st[i] # st[j]
            /\ \A i \in 1..Len(st) : PlacesOf(st[i]) # {}
            /\ \A name \in StepNames :
                  PlacesOf(name) # {} => \E i \in 1..Len(st) : st[i] = name
            /\ \A i, j \in 1..Len(st) :
                  i < j => PlaceBefore(FirstPlaceOf(st[i]), FirstPlaceOf(st[j]))

\* the steps of two jobs that share a step name have been returned: the
\* name occurs in both jobs and once in the result
C22_Witness ==
    /\ returnedSteps.returned
    /\ Len(responseJobs) = 2
    /\ responseJobs[1] = Job(0, <<StepCheckout, StepEchoM1>>)
    /\ responseJobs[2] = Job(0, <<StepEchoMX, StepCheckout>>)
    /\ returnedSteps.steps = <<StepCheckout, StepEchoM1, StepEchoMX>>

\* the producer of retryOrDie, the run-listing call, throws
ListingThrows == pc = "list_runs" /\ apiFailure' # "none"

\* the message of the error a failed run-listing call throws
ListingMessage(failure) ==
    IF failure = "status" THEN "Failed to get Workflow runs" ELSE failure

\* the thrown error ends the resolution Failed with its own message, at once:
\* no backoff, no further producer call, no candidate inspected, no output
ListingErrorEndsSearch ==
    ListingThrows =>
        /\ pc' = "done"
        /\ failed' = Append(failed, ListingMessage(apiFailure'))
        /\ now' = now
        /\ rCalls' = rCalls
        /\ attemptNo' = attemptNo
        /\ cycleRuns' = <<>>
        /\ outputs' = outputs

\* once a "Not Found" has ended the search nothing of the invocation changes
NothingAfterListingError ==
    apiFailure = "Not Found" => (runVars' = runVars)

\* C23: an error thrown by the run-listing call inside retryOrDie, a
\* "Not Found" included, is neither retried nor swallowed: the resolution
\* ends Failed with that error, no further listing call is made and no
\* candidate of the cycle is inspected; a "Not Found" that ended the
\* search is one of the run listing, never one of a step inspection.
C23_ListingErrorIsFatal ==
    /\ [][ListingErrorEndsSearch]_vars
    /\ [](apiFailure = "Not Found" =>
            /\ pc = "done"
            /\ failed = <<"Not Found">>
            /\ cycleRuns = <<>>
            /\ RunIdOutputs = <<>>)
    /\ [][NothingAfterListingError]_vars

\* the run listing of the second cycle, asked again after an empty
\* response, threw "Not Found"
C23_Witness ==
    /\ pc = "done"
    /\ apiFailure = "Not Found"
    /\ failed = <<"Not Found">>
    /\ attemptNo = 2
    /\ rCalls = 2
    /\ rEmpties = 1
    /\ cycleRuns = <<>>

\* the outcome of the GetRun call that returns or throws in this step
UrlOutcome == urlCalls'[Len(urlCalls')][2]

\* the run id is set as output only in the step in which GetRun returns for
\* the matched run, and it is that run's id
OutputAfterUrl ==
    apiOutputs' # apiOutputs =>
        /\ apiPc = "get_run"
        /\ urlCalls' = Append(urlCalls, <<apiRunIds[apiIdx], "ok">>)
        /\ apiOutputs' = Append(apiOutputs, apiRunIds[apiIdx])
        /\ StepsMatch(DistinctId, JobSteps(apiPlatform[apiRunIds[apiIdx]].jobs))
        /\ apiPc' = "done"

\* a GetRun call that throws: "Not Found" leaves the matched run aside and
\* the for loop goes on, any other error ends the resolution Failed
UrlErrorHandled ==
    (apiPc = "get_run" /\ UrlOutcome # "ok") =>
        /\ apiOutputs' = apiOutputs
        /\ IF UrlOutcome = "Not Found"
           THEN /\ apiFailed' = apiFailed
                /\ apiIdx' = apiIdx + 1
                /\ apiPc' = IF apiIdx < Len(apiRunIds) THEN "list_jobs"
                            ELSE "cycle_sleep"
           ELSE /\ apiFailed' = Append(apiFailed, UrlMessage(UrlOutcome))
                /\ apiPc' = "done"

\* C24: in applyWorkflowRunId of api.ts the run id is set as output only
\* after GetRun has returned for the matched run; a "Not Found" thrown by
\* that GetRun call is handled like one of the step inspection (nothing is
\* emitted for the matched run, the search goes on with the next candidate)
\* and any other failure of it ends the resolution Failed.
C24_OutputAfterRunUrl ==
    /\ [][OutputAfterUrl]_vars
    /\ [][UrlErrorHandled]_vars
    /\ [](apiOutputs # <<>> =>
            /\ urlCalls # <<>>
            /\ urlCalls[Len(urlCalls)] = <<apiOutputs[1], "ok">>
            /\ Len(apiOutputs) = 1
            /\ apiFailed = <<>>)

\* GetRun threw "Not Found" for the first matching run, the second
\* candidate matched as well, its GetRun call returned and its id was emitted
C24_Witness ==
    /\ apiPc = "done"
    /\ apiRunIds = <<1, 2>>
    /\ urlCalls = <<<<1, "Not Found">>, <<2, "ok">>>>
    /\ apiOutputs = <<2>>
    /\ apiFailed = <<>>

\* C25 as stated: whenever the search begins, the marker the step names are
\* matched against is a defined, non-empty value, and it is the value sent as
\* the commitId input of the dispatch call, whether the inputs JSON is
\* absent, has a commitId or has none.
C25_AsStated ==
    SearchBegan =>
        /\ commitId.defined
        /\ commitId.text # <<>>
        /\ inputs.commitId = commitId

\* the search loop has made its first test
FirstTestMade == SearchBegan /\ pc # "loop_check"

\* C26: the overall timeout is the configured number of seconds when the
\* value parses to an integer other than 0, and 300 seconds when the value
\* is the empty string or parses to 0; a value that parses to no number ends
\* the resolution Failed before any run-listing call, and a negative value
\* ends it with the timeout failure before any run-listing call.
C26_EffectiveTimeout ==
    SearchBegan =>
        /\ (timeoutInput.kind = "int" /\ timeoutInput.n # 0)
              => timeoutMs = timeoutInput.n * 1000
        /\ (timeoutInput.kind = "empty" \/ timeoutInput = IntValue(0))
              => timeoutMs = 300 * 1000
        /\ timeoutInput.kind = "nan"
              => /\ pc = "done"
                 /\ failed = <<"Unable to parse value">>
                 /\ rCalls = 0 /\ attemptNo = 0
        /\ (timeoutInput.kind = "int" /\ timeoutInput.n < 0 /\ FirstTestMade)
              => /\ pc = "done"
                 /\ failed = <<"Timeout exceeded while attempting to get Run ID">>
                 /\ rCalls = 0 /\ attemptNo = 0
        /\ (timeoutInput.kind # "nan" /\ timeoutMs > 0 /\ FirstTestMade)
              => /\ pc = "retry_check"
                 /\ failed = <<>>
                 /\ attemptNo = 1
                 /\ rTimeoutMs = Min(60 * 1000, timeoutMs)

\* the configured value "0": the search is entered with 300 seconds
C26_Witness ==
    /\ timeoutInput = IntValue(0)
    /\ timeoutMs = 300000
    /\ pc = "retry_check"
    /\ attemptNo = 1

TypeOK ==
    /\ pc \in {"start", "list_workflows", "dispatch", "loop_check", "retry_check",
               "list_runs", "retry_sleep", "list_jobs", "cycle_sleep", "done"}
    /\ now \in Nat
    /\ idx \in 0..(MaxRuns + 1)
    /\ Len(outputs) <= 2
    /\ Len(failed) <= 1

====
